---- MODULE Spec2Model ----
(***************************************************************************)
(* ATP-Prediction: the match ledger, its augmentation with mirrored rows   *)
(* (src/src/data/preprocessor.py) and the order-sensitive feature passes   *)
(* ELO, head-to-head and surface performance                               *)
(* (src/src/features/feature_engineer.py).                                 *)
(*                                                                         *)
(* A table (pandas DataFrame) is a sequence of rows; derived columns are   *)
(* kept as sequences aligned with the table.  Floats are fixed-point       *)
(* integers with Scale units per 1.0.                                      *)
(***************************************************************************)
EXTENDS Integers, Sequences, FiniteSets, TLC

\* ------------------------------------------------------------------ bounds
\* Largest number of matches in the raw ledger.
MaxMatches == 2

\* ------------------------------------------------------- input domains
Players == 1 .. 3
Dates == 1 .. 2
Surfaces == {"Hard", "Clay"}

\* ------------------------------------------------- program constants
\* Fixed-point resolution of the float arithmetic: Scale units are 1.0.
Scale == 10000
\* ln(10) in fixed-point, used by 10 ** x.
Ln10 == 23026
\* create_elo_ratings(k_factor=32, initial_rating=1500)
k_factor == 32
\* config.rolling_window and config.min_matches_per_player when not configured
DefaultRollingWindow == 5
DefaultMinMatches == 10
INITIAL_POINTS == 1500
initial_rating == INITIAL_POINTS * Scale

\* Largest table handed to calculate_rolling_stats on its own, and the
\* largest configured rolling window.
MaxRollRows == 3
MaxWindow == 2

\* Largest persisted feature table predict_proba reads.
MaxGoldRows == 3

\* Most files in the models directory.
MaxFiles == 3

\* ------------------------------------------------------------ tables
\* One match record.  After create_result_column every row reads
\* "P1 defeated P2" (result = 1).
RawRows ==
    { [P1 |-> a, P2 |-> b, result |-> 1, tourney_date |-> d,
       surface |-> s] :
        a \in Players, b \in Players, d \in Dates, s \in Surfaces }

ValidRawRows == { r \in RawRows : r.P1 # r.P2 }

\* The raw ledgers.
RawTables == UNION { [1 .. n -> ValidRawRows] : n \in 1 .. MaxMatches }

\* Ledgers with the derived columns P1_rank / P2_rank.  columns_to_drop is
\* configuration, so a ledger may have lost one column of a pair.
Ranks == 1 .. 2
PairedColumns == {"P1", "P2", "result", "tourney_date", "P1_rank", "P2_rank"}
UnpairedColumns == PairedColumns \ {"P2_rank"}

WideRows(columns) ==
    { r \in [columns -> Players \cup Dates \cup Ranks] :
        /\ r["P1"] \in 1 .. 2 /\ r["P2"] \in 1 .. 2 /\ r["P1"] # r["P2"]
        /\ r["result"] = 1
        /\ r["tourney_date"] \in Dates
        /\ \A c \in columns \ {"P1", "P2", "result", "tourney_date"} :
              r[c] \in Ranks }

WideTables ==
    UNION { [1 .. n -> WideRows(columns)] :
              n \in 1 .. MaxMatches, columns \in {PairedColumns, UnpairedColumns} }

\* A missing statistic (numpy NaN); statistics themselves are counts >= 0.
NaN == -1
StatValues == {NaN, 1, 3}

\* Tables with one statistic column, P1_rank.
RollRows ==
    { [P1 |-> a, tourney_date |-> d, P1_rank |-> v] :
        a \in 1 .. 2, d \in Dates, v \in StatValues }

RollTables == UNION { [1 .. n -> RollRows] : n \in 1 .. MaxRollRows }

\* The statistic columns a caller may ask for.
RequestedColumns == {"P1_rank", "P1_ace"}

\* The persisted feature table (atp_matches_gold.csv), as far as
\* predict_proba reads it, with or without its P1_elo column.
EloValues == { initial_rating, initial_rating + 16 * Scale }
GoldColumns == {"P1", "tourney_date", "P1_elo"}

GoldRows(columns) ==
    { r \in [columns -> Players \cup Dates \cup EloValues] :
        /\ r["P1"] \in Players
        /\ r["tourney_date"] \in Dates
        /\ "P1_elo" \in columns => r["P1_elo"] \in EloValues }

GoldTables ==
    UNION { [1 .. n -> GoldRows(columns)] :
              n \in 1 .. MaxGoldRows,
              columns \in {GoldColumns, GoldColumns \ {"P1_elo"}} }

\* The collected ledger (bronze), before preprocess: the winner and the loser
\* of a match are two different players; a name may be missing.
TourneyNames == {"Wimbledon", "Davis Cup F", "Challenger"}
RawDates == {20240101, 20240108}
Names == {NaN} \cup (1 .. 2)

BronzeRows ==
    { [winner_name |-> w, loser_name |-> l, tourney_date |-> d,
       tourney_name |-> n] :
        w \in Names, l \in Names, d \in RawDates, n \in TourneyNames }

ValidBronzeRows ==
    { r \in BronzeRows :
        (r.winner_name # NaN /\ r.loser_name # NaN)
            => r.winner_name # r.loser_name }

BronzeTables == UNION { [1 .. n -> ValidBronzeRows] : n \in 1 .. MaxMatches }

\* The values min_matches_per_player is configured with.
MinMatchesChoices == 1 .. 2

\* The rows of a table as a bag: row -> number of occurrences.
RowBag(t) ==
    [r \in { t[k] : k \in 1 .. Len(t) } |->
        Cardinality({ k \in 1 .. Len(t) : t[k] = r })]

BagRemove(b, r) ==
    [x \in (IF b[r] = 1 THEN (DOMAIN b) \ {r} ELSE DOMAIN b) |->
        IF x = r THEN b[x] - 1 ELSE b[x]]

EmptyBag == [r \in {} |-> 0]

\* df.sort_values('tourney_date'): the default kind is quicksort, which
\* is not stable, so rows of equal date may come out in any order.
\* The rows that may come next in the sorted copy, given those still to place.
NextByDate(b) ==
    { r \in DOMAIN b : \A q \in DOMAIN b : r.tourney_date <= q.tourney_date }

\* The sorted copies of a table, all at once.
SortValuesDate(t) ==
    { [k \in 1 .. Len(t) |-> t[p[k]]] :
        p \in { q \in Permutations(1 .. Len(t)) :
                  \A a, b \in 1 .. Len(t) :
                      a < b => t[q[a]].tourney_date <= t[q[b]].tourney_date } }

\* ------------------------------------- augment_with_reversed_matches
\* The column names the model's tables may carry, by prefix:
\* col.startswith('P1') and col.startswith('P2').
P1Columns == {"P1", "P1_rank"}
P2Columns == {"P2", "P2_rank"}

\* p1_col.replace('P1', 'P2')
ReplaceP1P2(col) ==
    CASE col = "P1" -> "P2"
      [] col = "P1_rank" -> "P2_rank"
      [] OTHER -> col

\* p1_cols = [col for col in df.columns if col.startswith('P1')]
p1_cols(columns) == columns \cap P1Columns

\* p2_cols = [col for col in df.columns if col.startswith('P2')]
p2_cols(columns) == columns \cap P2Columns

\* The P1 columns the loop exchanges: those whose P2 name is a column.
SwappedP1Cols(columns) ==
    { c \in p1_cols(columns) : ReplaceP1P2(c) \in columns }

\* Variant: the two columns assigned one after the other, not as a pair.
ReversedRowSequential(r) ==
    LET sw == SwappedP1Cols(DOMAIN r)
    IN  [c \in (DOMAIN r) \cup {"result"} |->
            IF c = "result" THEN -1
            ELSE IF c \in sw THEN r[ReplaceP1P2(c)]
            ELSE r[c]]

\* Variant: only the player names are exchanged.
ReversedRowNamesOnly(r) ==
    [c \in (DOMAIN r) \cup {"result"} |->
        IF c = "result" THEN -1
        ELSE IF c = "P1" THEN r["P2"]
        ELSE IF c = "P2" THEN r["P1"]
        ELSE r[c]]

\* One row of df_reversed: every P1 column that has its P2 column exchanges
\* values with it, then result is set to -1.
ReversedRow(r) ==
    LET sw == SwappedP1Cols(DOMAIN r)
    IN  [c \in (DOMAIN r) \cup {"result"} |->
            IF c = "result" THEN -1
            ELSE IF c \in sw THEN r[ReplaceP1P2(c)]
            ELSE IF \E p \in sw : ReplaceP1P2(p) = c
                 THEN r[CHOOSE p \in sw : ReplaceP1P2(p) = c]
            ELSE r[c]]

ReversedTable(t) == [k \in 1 .. Len(t) |-> ReversedRow(t[k])]

\* Variant: the concatenation returned as it is, originals then mirrors.
AugmentedTablesUnsorted(t) == { t \o ReversedTable(t) }

\* pd.concat([df, df_reversed]) followed by sort_values('tourney_date').
AugmentedTables(t) == SortValuesDate(t \o ReversedTable(t))

\* df.columns: every row of a table carries the table's columns.
Columns(t) == IF t = << >> THEN {} ELSE DOMAIN t[1]

\* if len(p1_cols) != len(p2_cols): logger.warning(...)
MismatchWarning(t) ==
    Cardinality(p1_cols(Columns(t))) # Cardinality(p2_cols(Columns(t)))

\* ------------------------------------------------- float arithmetic
\* exp(y) for y >= 0 by its power series, in fixed-point.
RECURSIVE ExpSeries(_, _, _)
ExpSeries(y, term, n) ==
    IF term = 0 THEN 0
    ELSE term + ExpSeries(y, (term * y) \div (n * Scale), n + 1)

\* 10 ** x for a fixed-point x.
Pow10(x) ==
    IF x >= 0
    THEN ExpSeries((x * Ln10) \div Scale, Scale, 1)
    ELSE (Scale * Scale) \div ExpSeries(((-x) * Ln10) \div Scale, Scale, 1)

\* (elo_p2 - elo_p1) / 400, rounded toward zero.
Div400(d) == IF d >= 0 THEN d \div 400 ELSE -((-d) \div 400)

\* expected_p1 = 1 / (1 + 10 ** ((elo_p2 - elo_p1) / 400))
Expected(elo_p1, elo_p2) ==
    (Scale * Scale) \div (Scale + Pow10(Div400(elo_p2 - elo_p1)))

\* No exception has left the operation.
NoException == << >>

\* --------------------------------------------------- dictionaries
EmptyDict == [k \in {} |-> 0]

\* dict.get(key, default)
Get(d, key, default) == IF key \in DOMAIN d THEN d[key] ELSE default

\* d[key] = value
Put(d, key, value) ==
    [k \in (DOMAIN d) \cup {key} |-> IF k = key THEN value ELSE d[k]]


VARIABLES
    df,             \* the current table; inside a pass, the rows of the
                    \* sorted copy reached so far
    pending,        \* inside a pass: rows of the sorted copy not yet reached
    augmented,      \* df is an augmented ledger
    pc,             \* "raw", "augmented", the running pass, or "<pass>_done"
    i,              \* number of rows the running pass has processed
    second,         \* create_elo_ratings is in, or past, its second call
    elo_ratings,    \* create_elo_ratings: player -> rating
    p1_elo_before,  \* create_elo_ratings: P1 ratings at the time of the match
    p2_elo_before,  \* create_elo_ratings: P2 ratings at the time of the match
    P1_elo,         \* column P1_elo of the returned table
    P2_elo,         \* column P2_elo of the returned table
    elo_diff,       \* column elo_diff of the returned table
    elo_prev,       \* the columns the first call returned
    h2h_wins,       \* create_head_to_head_features: pair -> player -> wins
    h2h_records,    \* create_head_to_head_features: emitted records
    surface_wins,   \* create_surface_performance_features: (player, surface) -> wins
    surface_total,  \* create_surface_performance_features: (player, surface) -> matches
    p1_surface_wr,  \* emitted P1 surface win rates
    p2_surface_wr,  \* emitted P2 surface win rates
    warned,         \* augment_with_reversed_matches logged the count mismatch
    rolling_window, \* config.rolling_window
    min_matches,    \* config.min_matches_per_player
    stat_columns,   \* calculate_rolling_stats: the columns argument
    input,          \* the arguments an operation was called with
    prediction,     \* predict_proba: << >>, or << the returned probability >>
    raised,         \* << >>, or the exception that left the operation
    steps,          \* orchestrate.main: the scripts started, with their outcomes
    elapsed,        \* orchestrate.run_script: seconds the running script has taken
    returned,       \* orchestrate.main: << >>, or << the return value >>
    models_dir,     \* the file names in the models directory
    found,          \* _find_latest_model: << >>, or the path returned
    model,          \* MatchPredictor.model: << >>, or the file the model was loaded from
    model_path,     \* MatchPredictor.model_path: << >> (None), or a path
    model_info,     \* get_model_info: << >>, or the dictionary returned
    elo_order,      \* engineer_features: the index labels in the order the ELO loop took them
    applied,        \* the feature passes applied to df so far, in order
    stable          \* every sort by date so far left rows of equal date in incoming order

eloVars == << second, elo_ratings, p1_elo_before, p2_elo_before,
              P1_elo, P2_elo, elo_diff, elo_prev >>

h2hVars == << h2h_wins, h2h_records >>

surfaceVars == << surface_wins, surface_total, p1_surface_wr, p2_surface_wr >>

\* The state of the operations outside the feature passes.
extVars == << rolling_window, min_matches, stat_columns, input,
             prediction, raised >>

orchVars == << steps, elapsed, returned >>

predictorVars == << models_dir, found, model, model_path, model_info >>

composeVars == << elo_order, applied, stable >>

\* The state of the orchestrator, of the predictor and of the pass composition.
sysVars == << orchVars, predictorVars, composeVars >>

vars == << df, pending, augmented, pc, i, eloVars, h2hVars, surfaceVars,
          warned, extVars, sysVars >>

\* The state around the table before any operation has run.
InitPasses ==
    /\ pending = EmptyBag
    /\ augmented = FALSE
    /\ pc = "raw"
    /\ i = 0
    /\ second = FALSE
    /\ elo_ratings = EmptyDict
    /\ p1_elo_before = << >>
    /\ p2_elo_before = << >>
    /\ P1_elo = << >>
    /\ P2_elo = << >>
    /\ elo_diff = << >>
    /\ elo_prev = << >>
    /\ h2h_wins = EmptyDict
    /\ h2h_records = << >>
    /\ surface_wins = EmptyDict
    /\ surface_total = EmptyDict
    /\ p1_surface_wr = << >>
    /\ p2_surface_wr = << >>
    /\ warned = FALSE
    /\ stat_columns = {}
    /\ input = << >>
    /\ prediction = << >>
    /\ raised = NoException
    /\ steps = << >>
    /\ elapsed = 0
    /\ returned = << >>
    /\ found = << >>
    /\ model = << >>
    /\ model_path = << >>
    /\ model_info = << >>
    /\ elo_order = << >>
    /\ applied = << >>
    /\ stable = TRUE

\* An empty models directory.
InitDisk == models_dir = {}

\* The configuration when nothing is configured.
InitConfig ==
    /\ rolling_window = DefaultRollingWindow
    /\ min_matches = DefaultMinMatches

InitRest == InitPasses /\ InitConfig /\ InitDisk

Init ==
    /\ df \in RawTables
    /\ InitRest

\* A ledger with derived player columns, before augmentation.
InitColumns ==
    /\ df \in WideTables
    /\ InitRest

\* augment_with_reversed_matches(df)
AugmentWithReversedMatches ==
    /\ pc = "raw"
    /\ df' \in AugmentedTables(df)
    /\ augmented' = TRUE
    /\ pc' = "augmented"
    /\ warned' = MismatchWarning(df)
    /\ UNCHANGED << pending, i, eloVars, h2hVars, surfaceVars, extVars, sysVars >>

\* ------------------------------------------------ create_elo_ratings
\* Variant: the rating state outlives the call.
KeptEloRatings(old) == old

\* elo_ratings = {}: the rating state at the start of a call.
NewEloRatings(old) == EmptyDict

\* Variant: an unseen player is looked up with the wrong default.
EloLookupNoDefault(ratings, p) == Get(ratings, p, 0)

\* elo_ratings.get(p, initial_rating)
EloLookup(ratings, p) == Get(ratings, p, initial_rating)

\* actual_p1 = 1 if result == 1 else 0
ActualP1(result) == IF result = 1 THEN 1 ELSE 0

\* Variant: P1 keeps its rating.
NewEloP1Unchanged(elo_p1, elo_p2, result) == elo_p1

\* new_elo_p1 = elo_p1 + k_factor * (actual_p1 - expected_p1)
NewEloP1(elo_p1, elo_p2, result) ==
    elo_p1 + k_factor * (ActualP1(result) * Scale - Expected(elo_p1, elo_p2))

\* Variant: P2 is updated with P1's actual score.
NewEloP2ActualP1(elo_p1, elo_p2, result) ==
    elo_p2 + k_factor * (ActualP1(result) * Scale
                           - (Scale - Expected(elo_p1, elo_p2)))

\* new_elo_p2 = elo_p2 + k_factor * (actual_p2 - expected_p2)
NewEloP2(elo_p1, elo_p2, result) ==
    elo_p2 + k_factor * ((1 - ActualP1(result)) * Scale
                           - (Scale - Expected(elo_p1, elo_p2)))

\* Variant: only P1's new rating is stored.
EloUpdatedP1Only(ratings, row) ==
    LET elo_p1 == EloLookup(ratings, row.P1)
        elo_p2 == EloLookup(ratings, row.P2)
    IN  Put(Put(ratings, row.P1, NewEloP1(elo_p1, elo_p2, row.result)),
            row.P2, elo_p2)

\* elo_ratings[p1] = new_elo_p1; elo_ratings[p2] = new_elo_p2
EloUpdated(ratings, row) ==
    LET elo_p1 == EloLookup(ratings, row.P1)
        elo_p2 == EloLookup(ratings, row.P2)
    IN  Put(Put(ratings, row.P1, NewEloP1(elo_p1, elo_p2, row.result)),
            row.P2, NewEloP2(elo_p1, elo_p2, row.result))

\* Variant: the rating is recorded after the row's update.
EloEmittedAfter(ratings, row, p) == EloLookup(EloUpdated(ratings, row), p)

\* The value appended to p1_elo_before / p2_elo_before for a player.
EloEmitted(ratings, row, p) == EloLookup(ratings, p)

\* df = df.copy(); df = df.sort_values('tourney_date'); elo_ratings = {}
CallElo ==
    /\ pc \in {"raw", "augmented"}
    /\ pending' = RowBag(df)
    /\ df' = << >>
    /\ pc' = "elo"
    /\ i' = 0
    /\ elo_ratings' = NewEloRatings(elo_ratings)
    /\ p1_elo_before' = << >>
    /\ p2_elo_before' = << >>
    /\ UNCHANGED << augmented, warned, extVars, second, P1_elo, P2_elo, elo_diff, elo_prev,
                    h2hVars, surfaceVars, sysVars >>

\* The body of "for idx, row in df.iterrows()" for one row.
EloBody(row) ==
    /\ p1_elo_before' = Append(p1_elo_before, EloEmitted(elo_ratings, row, row.P1))
    /\ p2_elo_before' = Append(p2_elo_before, EloEmitted(elo_ratings, row, row.P2))
    /\ elo_ratings' = EloUpdated(elo_ratings, row)
    /\ i' = i + 1
    /\ UNCHANGED << augmented, warned, extVars, pc, second, P1_elo, P2_elo, elo_diff, elo_prev,
                    h2hVars, surfaceVars, sysVars >>

\* One iteration, on the next row of the sorted copy.
EloStep ==
    /\ pc = "elo"
    /\ \/ /\ i = Len(df)
          /\ \E row \in NextByDate(pending) :
                /\ df' = Append(df, row)
                /\ pending' = BagRemove(pending, row)
                /\ EloBody(row)
       \/ /\ i < Len(df)
          /\ UNCHANGED << df, pending, sysVars >>
          /\ EloBody(df[i + 1])

\* df['elo_diff'] = df['P1_elo'] - df['P2_elo']
EloDiffColumn(c1, c2) == [k \in 1 .. Len(c1) |-> c1[k] - c2[k]]

\* df['P1_elo'] = ...; df['P2_elo'] = ...; df['elo_diff'] = ...; return df
EloReturn ==
    /\ pc = "elo"
    /\ i = Len(df)
    /\ pending = EmptyBag
    /\ P1_elo' = p1_elo_before
    /\ P2_elo' = p2_elo_before
    /\ elo_diff' = EloDiffColumn(p1_elo_before, p2_elo_before)
    /\ pc' = "elo_done"
    /\ UNCHANGED << df, pending, augmented, warned, extVars, i, second, elo_ratings,
                    p1_elo_before, p2_elo_before, elo_prev, h2hVars, surfaceVars, sysVars >>

\* A second call on the identical ordered sequence of matches: the sort is
\* a deterministic function of its input, so the rows come in the same order.
CallEloAgain ==
    /\ pc = "elo_done"
    /\ ~second
    /\ second' = TRUE
    /\ elo_prev' = << P1_elo, P2_elo >>
    /\ pc' = "elo"
    /\ i' = 0
    /\ elo_ratings' = NewEloRatings(elo_ratings)
    /\ p1_elo_before' = << >>
    /\ p2_elo_before' = << >>
    /\ UNCHANGED << df, pending, augmented, warned, extVars, P1_elo, P2_elo, elo_diff,
                    h2hVars, surfaceVars, sysVars >>

\* --------------------------------------- create_head_to_head_features
\* players_sorted = tuple(sorted([p1, p2]))
PlayersSorted(p1, p2) == IF p1 <= p2 THEN << p1, p2 >> ELSE << p2, p1 >>

\* if players_sorted not in h2h_wins: h2h_wins[players_sorted] = {p1: 0, p2: 0}
H2HEntry(wins, p1, p2) ==
    IF PlayersSorted(p1, p2) \in DOMAIN wins
    THEN wins
    ELSE Put(wins, PlayersSorted(p1, p2), Put(Put(EmptyDict, p1, 0), p2, 0))

\* h2h_wins[players_sorted].get(p, 0), once the entry exists
H2HCount(wins, p1, p2, p) == Get(H2HEntry(wins, p1, p2)[PlayersSorted(p1, p2)], p, 0)

\* p1_wins / total_matches, and the other float quotients of counters
Ratio(num, den) == (num * Scale) \div den

\* The neutral default 0.5
Half == Scale \div 2

\* h2h_ratio = p1_wins / total_matches if total_matches > 0 else 0.5
H2HRatio(p1_wins, total_matches) ==
    IF total_matches > 0 THEN Ratio(p1_wins, total_matches) ELSE Half

\* The record appended to h2h_records for a row.
H2HRecord(wins, row) ==
    LET p1_wins == H2HCount(wins, row.P1, row.P2, row.P1)
        p2_wins == H2HCount(wins, row.P1, row.P2, row.P2)
        total_matches == p1_wins + p2_wins
    IN  [h2h_total_matches |-> total_matches,
         h2h_p1_wins |-> p1_wins,
         h2h_p2_wins |-> p2_wins,
         h2h_p1_win_ratio |-> H2HRatio(p1_wins, total_matches)]

\* A variant that credits P1 whatever the result.
H2HUpdatedP1Always(wins, row) ==
    LET key == PlayersSorted(row.P1, row.P2)
        entry == H2HEntry(wins, row.P1, row.P2)
    IN  Put(entry, key, Put(entry[key], row.P1, Get(entry[key], row.P1, 0) + 1))

\* if result == 1: ...[p1] += 1  else: ...[p2] += 1
H2HUpdated(wins, row) ==
    LET key == PlayersSorted(row.P1, row.P2)
        entry == H2HEntry(wins, row.P1, row.P2)
        winner == IF row.result = 1 THEN row.P1 ELSE row.P2
    IN  Put(entry, key, Put(entry[key], winner, Get(entry[key], winner, 0) + 1))

\* df = df.copy(); df = df.sort_values('tourney_date'); h2h_wins = {}
CallH2H ==
    /\ pc \in {"raw", "augmented"}
    /\ pending' = RowBag(df)
    /\ df' = << >>
    /\ pc' = "h2h"
    /\ i' = 0
    /\ h2h_wins' = EmptyDict
    /\ h2h_records' = << >>
    /\ UNCHANGED << augmented, warned, extVars, eloVars, surfaceVars, sysVars >>

\* One iteration of "for idx, row in df.iterrows()", on the next row of
\* the sorted copy.
H2HStep ==
    /\ pc = "h2h"
    /\ \E row \in NextByDate(pending) :
          /\ df' = Append(df, row)
          /\ pending' = BagRemove(pending, row)
          /\ h2h_records' = Append(h2h_records, H2HRecord(h2h_wins, row))
          /\ h2h_wins' = H2HUpdated(h2h_wins, row)
    /\ i' = i + 1
    /\ UNCHANGED << augmented, warned, extVars, pc, eloVars, surfaceVars, sysVars >>

\* pd.concat([df.reset_index(drop=True), h2h_df], axis=1); return df
H2HReturn ==
    /\ pc = "h2h"
    /\ pending = EmptyBag
    /\ pc' = "h2h_done"
    /\ UNCHANGED << df, pending, augmented, warned, extVars, i, eloVars, h2hVars, surfaceVars, sysVars >>

\* ------------------------------- create_surface_performance_features
\* The order of sort_values(['P1', 'tourney_date']).
LessP1Date(r, q) ==
    \/ r.P1 < q.P1
    \/ r.P1 = q.P1 /\ r.tourney_date < q.tourney_date

\* Insert a row behind every row that is not greater: a stable insertion.
RECURSIVE InsertByP1Date(_, _)
InsertByP1Date(t, r) ==
    IF t = << >> THEN << r >>
    ELSE IF LessP1Date(r, t[Len(t)])
         THEN Append(InsertByP1Date(SubSeq(t, 1, Len(t) - 1), r), t[Len(t)])
         ELSE Append(t, r)

\* df.sort_values(['P1', 'tourney_date']): a lexsort, which is stable.
RECURSIVE SortValuesP1Date(_)
SortValuesP1Date(t) ==
    IF t = << >> THEN << >>
    ELSE InsertByP1Date(SortValuesP1Date(SubSeq(t, 1, Len(t) - 1)), t[Len(t)])

\* p_wr = p_wins / p_total if p_total > 0 else 0.5
SurfaceWinRate(wins, total, key) ==
    IF Get(total, key, 0) > 0
    THEN Ratio(Get(wins, key, 0), Get(total, key, 0))
    ELSE Half

\* A variant that counts the match for P1 only.
SurfaceTotalUpdatedP1Only(total, row) ==
    LET key_p1 == << row.P1, row.surface >>
    IN  Put(total, key_p1, Get(total, key_p1, 0) + 1)

\* surface_total[key_p1] += 1; surface_total[key_p2] += 1
SurfaceTotalUpdated(total, row) ==
    LET key_p1 == << row.P1, row.surface >>
        key_p2 == << row.P2, row.surface >>
        t1 == Put(total, key_p1, Get(total, key_p1, 0) + 1)
    IN  Put(t1, key_p2, Get(t1, key_p2, 0) + 1)

\* if result == 1: surface_wins[key_p1] += 1  else: surface_wins[key_p2] += 1
SurfaceWinsUpdated(wins, row) ==
    LET key == IF row.result = 1 THEN << row.P1, row.surface >>
                                 ELSE << row.P2, row.surface >>
    IN  Put(wins, key, Get(wins, key, 0) + 1)

\* df = df.copy(); df = df.sort_values(['P1', 'tourney_date'])
CallSurface ==
    /\ pc \in {"raw", "augmented"}
    /\ df' = SortValuesP1Date(df)
    /\ pc' = "surface"
    /\ i' = 0
    /\ surface_wins' = EmptyDict
    /\ surface_total' = EmptyDict
    /\ p1_surface_wr' = << >>
    /\ p2_surface_wr' = << >>
    /\ UNCHANGED << pending, augmented, warned, extVars, eloVars, h2hVars, sysVars >>

\* One iteration of "for idx, row in df.iterrows()".
SurfaceStep ==
    /\ pc = "surface"
    /\ i < Len(df)
    /\ LET row == df[i + 1]
       IN  /\ p1_surface_wr' = Append(p1_surface_wr,
                 SurfaceWinRate(surface_wins, surface_total, << row.P1, row.surface >>))
           /\ p2_surface_wr' = Append(p2_surface_wr,
                 SurfaceWinRate(surface_wins, surface_total, << row.P2, row.surface >>))
           /\ surface_total' = SurfaceTotalUpdated(surface_total, row)
           /\ surface_wins' = SurfaceWinsUpdated(surface_wins, row)
    /\ i' = i + 1
    /\ UNCHANGED << df, pending, augmented, warned, extVars, pc, eloVars, h2hVars, sysVars >>

\* df['P1_surface_win_rate'] = p1_surface_wr; ...; return df
SurfaceReturn ==
    /\ pc = "surface"
    /\ i = Len(df)
    /\ pc' = "surface_done"
    /\ UNCHANGED << df, pending, augmented, warned, extVars, i, eloVars, h2hVars, surfaceVars, sysVars >>

\* ------------------------------------------------------------ preprocess
\* str.startswith('Davis Cup', na=False)
IsDavisCup(name) == name = "Davis Cup F"

\* df[~df['tourney_name'].str.startswith('Davis Cup', na=False)]
CleanDavisCup(t) ==
    LET Keep(r) == ~IsDavisCup(r["tourney_name"]) IN SelectSeq(t, Keep)

\* config.location_mapping and config.allowed_tournaments
LocationMapping(name) == IF name = "Wimbledon" THEN "London" ELSE name
AllowedTournaments == {"Wimbledon"}

\* row -> row with one more (or one replaced) column
WithColumn(r, col, value) ==
    [c \in (DOMAIN r) \cup {col} |-> IF c = col THEN value ELSE r[c]]

\* df['Location'] = df['tourney_name'].replace(self.location_mapping)
AddLocationColumn(t) ==
    [k \in 1 .. Len(t) |->
        WithColumn(t[k], "Location", LocationMapping(t[k]["tourney_name"]))]

\* pd.to_datetime(..., format='%Y%m%d'), as a number of the day
ToDatetime(d) ==
    CASE d = 20240101 -> 1
      [] d = 20240108 -> 2

ConvertDateColumn(t) ==
    [k \in 1 .. Len(t) |->
        WithColumn(t[k], "tourney_date", ToDatetime(t[k]["tourney_date"]))]

\* A variant that keeps the Davis Cup rows as well.
FilterTournamentsAndDavisCup(t) ==
    LET Keep(r) == \/ r["tourney_name"] \in AllowedTournaments
                   \/ IsDavisCup(r["tourney_name"])
    IN  SelectSeq(t, Keep)

\* df[df['tourney_name'].isin(self.allowed_tournaments)]
FilterTournaments(t) ==
    LET Keep(r) == r["tourney_name"] \in AllowedTournaments IN SelectSeq(t, Keep)

\* winner_to_p1 and loser_to_p2, for the columns of the model
Renamed(col) ==
    CASE col = "winner_name" -> "P1"
      [] col = "loser_name" -> "P2"
      [] OTHER -> col

RenamePlayerColumns(t) ==
    [k \in 1 .. Len(t) |->
        [c \in { Renamed(col) : col \in DOMAIN t[k] } |->
            t[k][CHOOSE col \in DOMAIN t[k] : Renamed(col) = c]]]

\* df['result'] = 1
CreateResultColumn(t) ==
    [k \in 1 .. Len(t) |-> WithColumn(t[k], "result", 1)]

\* Variant: only a missing P1 removes the row.
HandleMissingValuesP1Only(t) ==
    LET Keep(r) == r["P1"] # NaN IN SelectSeq(t, Keep)

\* df.dropna(subset=['P1', 'P2', 'result'])
HandleMissingValues(t) ==
    LET Keep(r) == r["P1"] # NaN /\ r["P2"] # NaN /\ r["result"] # NaN
    IN  SelectSeq(t, Keep)

\* df['P1'].value_counts() >= min_matches; df[df['P1'].isin(valid_players)]
FilterPlayersByMatchCount(t, min) ==
    LET Count(p) == Cardinality({ k \in 1 .. Len(t) : t[k]["P1"] = p })
        Keep(r) == Count(r["P1"]) >= min
    IN  SelectSeq(t, Keep)

\* The steps of preprocess up to the optional augmentation.
Cleaned(t) ==
    HandleMissingValues(CreateResultColumn(RenamePlayerColumns(
        FilterTournaments(ConvertDateColumn(AddLocationColumn(
            CleanDavisCup(t)))))))

\* preprocess(df, augment_data)
Preprocess ==
    /\ pc = "raw"
    /\ \E augment_data \in BOOLEAN :
          /\ augmented' = augment_data
          /\ warned' = (augment_data /\ MismatchWarning(Cleaned(df)))
          /\ \E t \in (IF augment_data THEN AugmentedTables(Cleaned(df))
                                        ELSE { Cleaned(df) }) :
                df' = FilterPlayersByMatchCount(t, min_matches)
    /\ input' = df
    /\ pc' = "preprocessed"
    /\ UNCHANGED << pending, i, eloVars, h2hVars, surfaceVars,
                    rolling_window, min_matches, stat_columns, prediction, raised, sysVars >>

\* The collected ledger and the configured player threshold.
InitPreprocess ==
    /\ df \in BronzeTables
    /\ InitPasses
    /\ InitDisk
    /\ rolling_window = DefaultRollingWindow
    /\ min_matches \in MinMatchesChoices

NextPreprocess == Preprocess

SpecPreprocess == InitPreprocess /\ [][NextPreprocess]_vars

\* Collected ledgers of complete rows among three players.
CompleteBronzeRows ==
    { [winner_name |-> w, loser_name |-> l, tourney_date |-> d,
       tourney_name |-> n] :
        w \in Players, l \in Players, d \in RawDates,
        n \in {"Wimbledon", "Challenger"} }

ValidCompleteBronzeRows == { r \in CompleteBronzeRows : r.winner_name # r.loser_name }

CompleteBronzeTables ==
    UNION { [1 .. n -> ValidCompleteBronzeRows] : n \in 1 .. MaxMatches }

\* preprocess on a ledger of complete rows among three players.
InitPreprocessPlayers ==
    /\ df \in CompleteBronzeTables
    /\ InitPasses
    /\ InitDisk
    /\ rolling_window = DefaultRollingWindow
    /\ min_matches \in MinMatchesChoices

SpecPreprocessPlayers == InitPreprocessPlayers /\ [][NextPreprocess]_vars

\* filter_tournaments(df), called on its own on a collected ledger
CallFilterTournaments ==
    /\ pc = "raw"
    /\ df' = FilterTournaments(df)
    /\ input' = df
    /\ pc' = "filtered"
    /\ UNCHANGED << pending, augmented, i, eloVars, h2hVars, surfaceVars, warned,
                    rolling_window, min_matches, stat_columns, prediction, raised,
                    sysVars >>

InitTournaments == df \in BronzeTables /\ InitRest

NextTournaments == CallFilterTournaments

SpecTournaments == InitTournaments /\ [][NextTournaments]_vars

\* -------------------------------------------------------- predict_proba
\* Variant: any row of the player, whatever its date.
AnyRows(t, player) ==
    { t[k] : k \in { j \in 1 .. Len(t) : t[j]["P1"] = player } }

\* df[df['P1'] == player].sort_values('tourney_date', ascending=False).head(1):
\* a row of the player with the largest date (the sort is not stable); no
\* row when the player is never P1.
LatestRows(t, player) ==
    { t[k] : k \in { j \in 1 .. Len(t) :
                       /\ t[j]["P1"] = player
                       /\ \A x \in 1 .. Len(t) :
                             t[x]["P1"] = player
                                 => t[x]["tourney_date"] <= t[j]["tourney_date"] } }

\* Variant: an empty selection is not noticed.
IsEmptyNever(data) == FALSE

\* p1_data.empty
IsEmpty(data) == data = {}

\* p1_data['P1_elo'].iloc[0] if 'P1_elo' in p1_data.columns else 1500
EloOf(row) ==
    IF "P1_elo" \in DOMAIN row THEN row["P1_elo"] ELSE INITIAL_POINTS * Scale

\* prob_p1 = 1 / (1 + 10 ** ((p2_elo - p1_elo) / 400))
ProbP1(p1_elo, p2_elo) ==
    (Scale * Scale) \div (Scale + Pow10(Div400(p2_elo - p1_elo)))

\* raise ...; the except clause logs and re-raises
Raise(exception) ==
    /\ raised' = exception
    /\ prediction' = << >>
    /\ pc' = "failed"

\* predict_proba(player1, player2)
PredictProba ==
    /\ pc = "raw"
    /\ \E player1, player2 \in Players :
          LET p1_data == LatestRows(df, player1)
              p2_data == LatestRows(df, player2)
          IN  /\ input' = << player1, player2 >>
              /\ IF IsEmpty(p1_data) THEN Raise(<< "ValueError", player1 >>)
                 ELSE IF IsEmpty(p2_data) THEN Raise(<< "ValueError", player2 >>)
                 ELSE IF p1_data = {} \/ p2_data = {} THEN Raise(<< "IndexError" >>)
                 ELSE \E r1 \in p1_data, r2 \in p2_data :
                        /\ prediction' = << ProbP1(EloOf(r1), EloOf(r2)) >>
                        /\ raised' = NoException
                        /\ pc' = "predicted"
    /\ UNCHANGED << df, pending, augmented, i, eloVars, h2hVars, surfaceVars,
                    warned, rolling_window, min_matches, stat_columns, sysVars >>

\* The feature table on disk, before a prediction is asked for.
InitInference ==
    /\ df \in GoldTables
    /\ InitRest

NextInference == PredictProba

SpecInference == InitInference /\ [][NextInference]_vars

\* ------------------------------------------------------ specifications
NextElo ==
    \/ AugmentWithReversedMatches
    \/ CallElo
    \/ EloStep
    \/ EloReturn
    \/ CallEloAgain

SpecElo == Init /\ [][NextElo]_vars

NextH2H ==
    \/ AugmentWithReversedMatches
    \/ CallH2H
    \/ H2HStep
    \/ H2HReturn

SpecH2H == Init /\ [][NextH2H]_vars

NextSurface ==
    \/ AugmentWithReversedMatches
    \/ CallSurface
    \/ SurfaceStep
    \/ SurfaceReturn

SpecSurface == Init /\ [][NextSurface]_vars

\* ---------------------------------------------- calculate_rolling_stats
\* f'{col}_moy'
MoyName(col) ==
    CASE col = "P1_rank" -> "P1_rank_moy"
      [] col = "P1_ace" -> "P1_ace_moy"

\* Variant: every requested column is used, present or not.
PresentColumnsUnchecked(columns, t) == columns

\* for col in columns: if col in df.columns
PresentColumns(columns, t) == columns \cap Columns(t)

\* df.groupby('P1'): the positions up to k of the rows of row k's player.
GroupPositions(t, k) == { j \in 1 .. k : t[j]["P1"] = t[k]["P1"] }

\* Variant: the window runs over the table, not over the player's rows.
WindowPositionsUngrouped(t, k, window) ==
    { j \in 1 .. k : k - j < window }

\* .rolling(window=window): the last `window` rows of the group, row k included.
WindowPositions(t, k, window) ==
    { j \in GroupPositions(t, k) :
        Cardinality({ x \in GroupPositions(t, k) : x >= j }) <= window }

RECURSIVE SumAt(_, _, _)
SumAt(t, col, positions) ==
    IF positions = {} THEN 0
    ELSE LET j == CHOOSE x \in positions : TRUE
         IN  t[j][col] + SumAt(t, col, positions \ {j})

\* .rolling(window, min_periods=1).mean() at row k: the mean of the values
\* present in the window, NaN when fewer than min_periods are present.
RollingMean(t, col, k, window) ==
    LET valid == { j \in WindowPositions(t, k, window) : t[j][col] # NaN }
    IN  IF Cardinality(valid) >= 1
        THEN Ratio(SumAt(t, col, valid), Cardinality(valid))
        ELSE NaN

\* The row at position k of the sorted table with its <col>_moy columns.
RowWithMoy(t, cols, k, window) ==
    [c \in (DOMAIN t[k]) \cup { MoyName(col) : col \in cols } |->
        IF c \in DOMAIN t[k] THEN t[k][c]
        ELSE LET col == CHOOSE x \in cols : MoyName(x) = c
             IN  RollingMean(t, col, k, window)]

\* The table calculate_rolling_stats returns: sorted by (P1, tourney_date),
\* with a <col>_moy column for every requested column that is present.
RollingStats(t, columns, window) ==
    LET sorted == SortValuesP1Date(t)
        cols == PresentColumns(columns, t)
    IN  [k \in 1 .. Len(sorted) |-> RowWithMoy(sorted, cols, k, window)]

\* calculate_rolling_stats(df, columns)
CalculateRollingStats ==
    /\ pc = "raw"
    /\ \E columns \in SUBSET RequestedColumns :
              /\ stat_columns' = columns
              /\ input' = df
              /\ IF PresentColumns(columns, df) \subseteq Columns(df)
                 THEN /\ df' = RollingStats(df, columns, rolling_window)
                      /\ raised' = NoException
                      /\ pc' = "rolling_done"
                 ELSE /\ df' = df
                      /\ raised' = << "KeyError" >>
                      /\ pc' = "failed"
    /\ UNCHANGED << pending, augmented, i, eloVars, h2hVars, surfaceVars,
                    warned, rolling_window, min_matches, prediction, sysVars >>

\* A table with a statistic column and a configured window.
InitRolling ==
    /\ df \in RollTables
    /\ InitPasses
    /\ InitDisk
    /\ rolling_window \in 1 .. MaxWindow
    /\ min_matches = DefaultMinMatches

NextRolling == CalculateRollingStats

SpecRolling == InitRolling /\ [][NextRolling]_vars

\* ---------------------------------------------------- engineer_features
\* Inside engineer_features the derived columns are columns of the rows, and
\* the DataFrame index is the column "index" (RangeIndex: 0, 1, ...).

\* The index of a table as it is handed to engineer_features.
RangeIndex(t) == [k \in 1 .. Len(t) |-> WithColumn(t[k], "index", k - 1)]

\* Variant: the index the table came with is kept.
KeptIndex(t) == t

\* reset_index(drop=True)
ResetIndex(t) == [k \in 1 .. Len(t) |-> WithColumn(t[k], "index", k - 1)]

\* row with the columns of rec added
WithColumns(r, rec) ==
    [c \in (DOMAIN r) \cup (DOMAIN rec) |->
        IF c \in DOMAIN rec THEN rec[c] ELSE r[c]]

\* The index labels of a table, in row order.
IndexColumn(t) == [k \in 1 .. Len(t) |-> t[k]["index"]]

\* Insert a row behind every row that is not later: a stable insertion.
RECURSIVE InsertByDate(_, _)
InsertByDate(t, r) ==
    IF t = << >> THEN << r >>
    ELSE IF r["tourney_date"] < t[Len(t)]["tourney_date"]
         THEN Append(InsertByDate(SubSeq(t, 1, Len(t) - 1), r), t[Len(t)])
         ELSE Append(t, r)

\* The sorted copy of SortValuesDate(t) that leaves rows of equal date in
\* their incoming order.
RECURSIVE StableSortValuesDate(_)
StableSortValuesDate(t) ==
    IF t = << >> THEN << >>
    ELSE InsertByDate(StableSortValuesDate(SubSeq(t, 1, Len(t) - 1)), t[Len(t)])

\* elo_ratings when the loop reaches row k of the sorted copy s.
RECURSIVE EloRatingsBefore(_, _)
EloRatingsBefore(s, k) ==
    IF k = 1 THEN NewEloRatings(EmptyDict)
    ELSE EloUpdated(EloRatingsBefore(s, k - 1), s[k - 1])

\* df['P1_elo'] = p1_elo_before; df['P2_elo'] = ...; df['elo_diff'] = ...
EloColumns(s, k) ==
    LET ratings == EloRatingsBefore(s, k)
        e1 == EloEmitted(ratings, s[k], s[k]["P1"])
        e2 == EloEmitted(ratings, s[k], s[k]["P2"])
    IN  [P1_elo |-> e1, P2_elo |-> e2, elo_diff |-> e1 - e2]

\* The table create_elo_ratings returns when its sorted copy is s.
EloTable(s) == [k \in 1 .. Len(s) |-> WithColumns(s[k], EloColumns(s, k))]

\* The tables create_elo_ratings may return for t.
CreateEloRatings(t) == { EloTable(s) : s \in SortValuesDate(t) }

\* h2h_wins when the loop reaches row k of the sorted copy s.
RECURSIVE H2HWinsBefore(_, _)
H2HWinsBefore(s, k) ==
    IF k = 1 THEN EmptyDict
    ELSE H2HUpdated(H2HWinsBefore(s, k - 1), s[k - 1])

\* h2h_df = pd.DataFrame(h2h_records): record k - 1 for row k of s.
H2HFrame(s) == [k \in 1 .. Len(s) |-> H2HRecord(H2HWinsBefore(s, k), s[k])]

\* pd.concat([t, frame], axis=1): the rows are joined on the index label.
ConcatAxis1(t, frame) ==
    [k \in 1 .. Len(t) |-> WithColumns(t[k], frame[t[k]["index"] + 1])]

\* The table create_head_to_head_features returns when its sorted copy is s.
H2HTable(s) == ConcatAxis1(ResetIndex(s), H2HFrame(s))

\* The tables create_head_to_head_features may return for t.
CreateHeadToHeadFeatures(t) == { H2HTable(s) : s \in SortValuesDate(t) }

\* surface_total / surface_wins when the loop reaches row k of s.
RECURSIVE SurfaceTotalBefore(_, _)
SurfaceTotalBefore(s, k) ==
    IF k = 1 THEN EmptyDict
    ELSE SurfaceTotalUpdated(SurfaceTotalBefore(s, k - 1), s[k - 1])

RECURSIVE SurfaceWinsBefore(_, _)
SurfaceWinsBefore(s, k) ==
    IF k = 1 THEN EmptyDict
    ELSE SurfaceWinsUpdated(SurfaceWinsBefore(s, k - 1), s[k - 1])

\* df['P1_surface_win_rate'] = ...; df['P2_surface_win_rate'] = ...;
\* df['surface_wr_diff'] = ...
SurfaceColumns(s, k) ==
    LET wins == SurfaceWinsBefore(s, k)
        total == SurfaceTotalBefore(s, k)
        w1 == SurfaceWinRate(wins, total, << s[k]["P1"], s[k]["surface"] >>)
        w2 == SurfaceWinRate(wins, total, << s[k]["P2"], s[k]["surface"] >>)
    IN  [P1_surface_win_rate |-> w1, P2_surface_win_rate |-> w2,
         surface_wr_diff |-> w1 - w2]

\* The table create_surface_performance_features returns for t.
CreateSurfacePerformanceFeatures(t) ==
    LET s == SortValuesP1Date(t)
    IN  [k \in 1 .. Len(s) |-> WithColumns(s[k], SurfaceColumns(s, k))]

\* .dt.year, .dt.month, .dt.dayofyear of the days of the model
TimeColumns(d) ==
    [year |-> 2024, month |-> 1, day_of_year |-> IF d = 1 THEN 1 ELSE 8]

\* The table create_time_features returns for t.
CreateTimeFeatures(t) ==
    [k \in 1 .. Len(t) |-> WithColumns(t[k], TimeColumns(t[k]["tourney_date"]))]

\* engineer_features(df)
EngineerFeatures ==
    /\ pc = "raw"
    /\ input' = df
    /\ stat_columns' = RequestedColumns \cap Columns(df)
    /\ LET rolled == RollingStats(df, RequestedColumns \cap Columns(df),
                                  rolling_window)
       IN  \E s2 \in SortValuesDate(rolled) :
             /\ elo_order' = IndexColumn(s2)
             /\ stable' = (s2 = StableSortValuesDate(rolled))
             /\ \E t3 \in CreateHeadToHeadFeatures(EloTable(s2)) :
                   \E s \in SortValuesDate(CreateTimeFeatures(
                                             CreateSurfacePerformanceFeatures(t3))) :
                       df' = ResetIndex(s)
    /\ pc' = "features_done"
    /\ UNCHANGED << pending, augmented, i, eloVars, h2hVars, surfaceVars,
                    warned, rolling_window, min_matches, prediction, raised,
                    orchVars, predictorVars, applied >>

\* A preprocessed ledger with its RangeIndex.
InitFeatures ==
    /\ df \in { RangeIndex(t) : t \in RawTables }
    /\ InitRest

NextFeatures == EngineerFeatures

SpecFeatures == InitFeatures /\ [][NextFeatures]_vars

\* ------------------------------------------------------- orchestrate.py
\* The state of the data passes, which the orchestrator and the predictor
\* leave alone.
dataVars == << df, pending, augmented, pc, i, eloVars, h2hVars, surfaceVars,
              warned, extVars >>

\* timeout=7200 of the pipeline step and timeout=1800 of the training step
PipelineTimeout == 7200
TrainingTimeout == 1800

\* The grain at which the time a child process takes is observed.
TickSeconds == 300

\* The exit codes of a child process.
ReturnCodes == 0 .. 2

\* run_script(script, description, timeout) has started its child process.
Started(script, timeout) ==
    [script |-> script, timeout |-> timeout, outcome |-> "running",
     returncode |-> << >>]

\* The call of run_script in progress, or the last one made.
LastStep == steps[Len(steps)]

Running == steps # << >> /\ LastStep.outcome = "running" /\ returned = << >>

\* A variant of run_script that takes an expired timeout for a success.
RunScriptIgnoresTimeout(step) == step.outcome \in {"success", "TimeoutExpired"}

\* The value run_script returns: True after the try block ran to its end,
\* False from each of the three except clauses.
RunScript(step) == step.outcome = "success"

Finish(outcome, code) ==
    /\ steps' = [steps EXCEPT ![Len(steps)].outcome = outcome,
                              ![Len(steps)].returncode = code]
    /\ UNCHANGED << elapsed, returned, dataVars, predictorVars, composeVars >>

\* main calls run_script("run_pipeline.py", ..., timeout=7200)
MainStartsPipeline ==
    /\ steps = << >>
    /\ returned = << >>
    /\ steps' = << Started("run_pipeline.py", PipelineTimeout) >>
    /\ elapsed' = 0
    /\ UNCHANGED << returned, dataVars, predictorVars, composeVars >>

\* The child process is still running and the timeout has not expired.
Tick ==
    /\ Running
    /\ elapsed < LastStep.timeout
    /\ elapsed' = elapsed + TickSeconds
    /\ UNCHANGED << steps, returned, dataVars, predictorVars, composeVars >>

\* subprocess.run(..., check=True) returns: the child exited with code 0.
\* subprocess.CalledProcessError: the child exited with another code.
ChildExits ==
    /\ Running
    /\ elapsed < LastStep.timeout
    /\ \E code \in ReturnCodes :
          Finish(IF code = 0 THEN "success" ELSE "CalledProcessError", << code >>)

\* subprocess.TimeoutExpired: the child is killed at the timeout.
TimeoutExpired ==
    /\ Running
    /\ elapsed >= LastStep.timeout
    /\ Finish("TimeoutExpired", << >>)

\* except Exception: the child could not be started, or its output not read.
OtherException ==
    /\ Running
    /\ Finish("Exception", << >>)

\* if not run_script("run_pipeline.py", ...): return 1; otherwise main
\* calls run_script("src.ml.train_model", ..., timeout=1800)
MainAfterPipeline ==
    /\ Len(steps) = 1
    /\ returned = << >>
    /\ LastStep.outcome # "running"
    /\ IF RunScript(LastStep)
       THEN /\ steps' = Append(steps, Started("src.ml.train_model", TrainingTimeout))
            /\ elapsed' = 0
            /\ UNCHANGED returned
       ELSE /\ returned' = << 1 >>
            /\ UNCHANGED << steps, elapsed >>
    /\ UNCHANGED << dataVars, predictorVars, composeVars >>

\* if not run_script("src.ml.train_model", ...): return 1; ...; return 0
MainAfterTraining ==
    /\ Len(steps) = 2
    /\ returned = << >>
    /\ LastStep.outcome # "running"
    /\ returned' = IF RunScript(LastStep) THEN << 0 >> ELSE << 1 >>
    /\ UNCHANGED << steps, elapsed, dataVars, predictorVars, composeVars >>

InitOrchestrate == df = << >> /\ InitRest

NextOrchestrate ==
    \/ MainStartsPipeline
    \/ Tick
    \/ ChildExits
    \/ TimeoutExpired
    \/ OtherException
    \/ MainAfterPipeline
    \/ MainAfterTraining

\* Time passes and main runs on: no step of the orchestrator waits for ever.
SpecOrchestrate ==
    InitOrchestrate /\ [][NextOrchestrate]_vars /\ WF_vars(NextOrchestrate)

\* ------------------------------------------------------- MatchPredictor
\* File names are the sequences of their characters' code points.
ModelUnderscore == << 109, 111, 100, 101, 108, 95 >>      \* "model_"
DotPkl == << 46, 112, 107, 108 >>                         \* ".pkl"
ModelPkl == << 109, 111, 100, 101, 108 >> \o DotPkl       \* "model.pkl"
ModelTxt == ModelUnderscore \o << 49, 46, 116, 120, 116 >> \* "model_1.txt"

\* What may stand between "model_" and ".pkl": nothing, "1", "2", "11",
\* "12", "21" and "b".
Suffixes ==
    { << >>, << 49 >>, << 50 >>, << 49, 49 >>, << 49, 50 >>, << 50, 49 >>,
      << 98 >> }

FileNames == { ModelUnderscore \o sfx \o DotPkl : sfx \in Suffixes }
                 \cup { ModelPkl, ModelTxt }

\* The contents a models directory may have.
Directories == { d \in SUBSET FileNames : Cardinality(d) <= MaxFiles }

StartsWith(name, prefix) ==
    Len(name) >= Len(prefix) /\ SubSeq(name, 1, Len(prefix)) = prefix

EndsWith(name, suffix) ==
    /\ Len(name) >= Len(suffix)
    /\ SubSeq(name, Len(name) - Len(suffix) + 1, Len(name)) = suffix

\* models_dir.glob("model_*.pkl")
Glob(dir) ==
    { name \in dir : /\ Len(name) >= Len(ModelUnderscore) + Len(DotPkl)
                     /\ StartsWith(name, ModelUnderscore)
                     /\ EndsWith(name, DotPkl) }

\* The order of paths of one directory: that of their names, character by
\* character, a proper prefix first.
RECURSIVE LessName(_, _)
LessName(a, b) ==
    IF b = << >> THEN FALSE
    ELSE IF a = << >> THEN TRUE
    ELSE IF Head(a) # Head(b) THEN Head(a) < Head(b)
    ELSE LessName(Tail(a), Tail(b))

\* sorted(names)
RECURSIVE SortedNames(_)
SortedNames(S) ==
    IF S = {} THEN << >>
    ELSE LET least == CHOOSE a \in S : \A b \in S \ {a} : LessName(a, b)
         IN  << least >> \o SortedNames(S \ {least})

\* A variant that takes the first of the sorted dated models.
LatestModelFirst(dated_models) == dated_models[1]

\* latest_model = dated_models[-1]
LatestModel(dated_models) == dated_models[Len(dated_models)]

\* _find_latest_model(models_dir): << the path returned >>, or << >> when
\* FileNotFoundError is raised.
FindLatestModel(dir) ==
    LET dated_models == SortedNames(Glob(dir))
    IN  IF dated_models # << >> THEN << LatestModel(dated_models) >>
        ELSE IF ModelPkl \in dir THEN << ModelPkl >>
        ELSE << >>

\* A call of _find_latest_model(models_dir)
CallFindLatestModel ==
    /\ pc = "raw"
    /\ found' = FindLatestModel(models_dir)
    /\ IF FindLatestModel(models_dir) = << >>
       THEN raised' = << "FileNotFoundError" >> /\ pc' = "failed"
       ELSE raised' = NoException /\ pc' = "found"
    /\ UNCHANGED << df, pending, augmented, i, eloVars, h2hVars, surfaceVars, warned,
                    rolling_window, min_matches, stat_columns, input, prediction,
                    orchVars, models_dir, model, model_path, model_info,
                    composeVars >>

InitFindModel ==
    /\ df = << >>
    /\ InitPasses
    /\ InitConfig
    /\ models_dir \in Directories

NextFindModel == CallFindLatestModel

SpecFindModel == InitFindModel /\ [][NextFindModel]_vars

\* None
None == << >>

\* MatchPredictor(): self.model = self._load_model(); self.model_path = None
\* _load_model sets self.model_path, then joblib.load returns the model or
\* raises, and every exception is logged and raised again.
Construct ==
    /\ pc = "raw"
    /\ found' = FindLatestModel(models_dir)
    /\ IF FindLatestModel(models_dir) = << >>
       THEN /\ raised' = << "FileNotFoundError" >>
            /\ pc' = "failed"
            /\ UNCHANGED << model, model_path >>
       ELSE \E loaded \in BOOLEAN :
              IF loaded
              THEN /\ model' = FindLatestModel(models_dir)
                   /\ model_path' = None
                   /\ raised' = NoException
                   /\ pc' = "constructed"
              ELSE /\ model_path' = FindLatestModel(models_dir)
                   /\ raised' = << "Exception" >>
                   /\ pc' = "failed"
                   /\ UNCHANGED model
    /\ UNCHANGED << df, pending, augmented, i, eloVars, h2hVars, surfaceVars, warned,
                    rolling_window, min_matches, stat_columns, input, prediction,
                    orchVars, models_dir, model_info, composeVars >>

\* The dictionary get_model_info returns for a path (the size and the type
\* of the model are left out).
ModelInfo(path) ==
    IF path = None
    THEN [error |-> "Aucun modèle chargé"]
    ELSE [model_name |-> path[1], model_path |-> path[1]]

\* get_model_info() on a constructed predictor
GetModelInfo ==
    /\ pc = "constructed"
    /\ model_info' = << ModelInfo(model_path) >>
    /\ pc' = "informed"
    /\ UNCHANGED << df, pending, augmented, i, eloVars, h2hVars, surfaceVars, warned,
                    extVars, orchVars, models_dir, found, model, model_path,
                    composeVars >>

NextPredictor == Construct \/ GetModelInfo

SpecPredictor == InitFindModel /\ [][NextPredictor]_vars

\* ------------------------------------------- the passes, one after another
Passes == {"elo", "h2h", "surface"}

NotYetApplied(pass) == \A k \in 1 .. Len(applied) : applied[k] # pass

\* A pass is applied to the table the previous pass returned; the first
\* one to the given table.
Applied(pass) ==
    /\ pc = "raw"
    /\ NotYetApplied(pass)
    /\ applied' = Append(applied, pass)
    /\ input' = IF applied = << >> THEN df ELSE input
    /\ UNCHANGED << pending, augmented, pc, i, eloVars, h2hVars, surfaceVars, warned,
                    rolling_window, min_matches, stat_columns, prediction, raised,
                    orchVars, predictorVars, elo_order >>

\* df = create_elo_ratings(df)
ApplyElo ==
    /\ Applied("elo")
    /\ \E s \in SortValuesDate(df) :
          /\ df' = EloTable(s)
          /\ stable' = (stable /\ s = StableSortValuesDate(df))

\* df = create_head_to_head_features(df)
ApplyH2H ==
    /\ Applied("h2h")
    /\ \E s \in SortValuesDate(df) :
          /\ df' = H2HTable(s)
          /\ stable' = (stable /\ s = StableSortValuesDate(df))

\* df = create_surface_performance_features(df)
ApplySurface ==
    /\ Applied("surface")
    /\ df' = CreateSurfacePerformanceFeatures(df)
    /\ UNCHANGED stable

NextCompose == ApplyElo \/ ApplyH2H \/ ApplySurface

SpecCompose == InitFeatures /\ [][NextCompose]_vars

\* ------------------------------------------------------ specifications

NextColumns == AugmentWithReversedMatches

SpecColumns == InitColumns /\ [][NextColumns]_vars

NextAugment == AugmentWithReversedMatches

SpecAugment == Init /\ [][NextAugment]_vars

Next ==
    \/ AugmentWithReversedMatches
    \/ CallElo
    \/ EloStep
    \/ EloReturn
    \/ CallEloAgain
    \/ CallH2H
    \/ H2HStep
    \/ H2HReturn
    \/ CallSurface
    \/ SurfaceStep
    \/ SurfaceReturn

Spec == Init /\ [][Next]_vars

\* ---------------------------------------------------------- properties
\* The rating a player holds in a rating state: the stored one, 1500 if none.
HeldRating(ratings, p) ==
    IF p \in DOMAIN ratings THEN ratings[p] ELSE 1500 * Scale

\* Number of occurrences of a row in a table.
Occurrences(t, r) == Cardinality({ k \in 1 .. Len(t) : t[k] = r })

\* No row occurs twice: every row of the table is identified by its content.
NoDuplicateRows == \A r \in { df[k] : k \in 1 .. Len(df) } : Occurrences(df, r) = 1

\* q is the mirrored row of the original row r.
IsMirrorOf(q, r) ==
    /\ r.result = 1
    /\ q = [r EXCEPT !.P1 = r.P2, !.P2 = r.P1, !.result = -1]

\* Two rows describe the same contest (from either perspective).
SameMatch(r, q) ==
    /\ r.tourney_date = q.tourney_date
    /\ r.surface = q.surface
    /\ \/ r.P1 = q.P1 /\ r.P2 = q.P2 /\ r.result = q.result
       \/ r.P1 = q.P2 /\ r.P2 = q.P1 /\ r.result = -q.result

\* A step of the ELO loop: one more row has been processed.
IsEloStep == pc = "elo" /\ pc' = "elo" /\ i' = i + 1

\* C1: in create_elo_ratings the P1_elo and P2_elo emitted for a row are the
\* ratings held in the rating state immediately before that row's update
\* (1500 for a player without entry), never the updated ones, and the
\* returned elo_diff is P1_elo minus P2_elo on every row.
C1_EmitsPreMatchRatings ==
    [][ /\ IsEloStep =>
            /\ p1_elo_before' =
                 Append(p1_elo_before, HeldRating(elo_ratings, df'[i'].P1))
            /\ p2_elo_before' =
                 Append(p2_elo_before, HeldRating(elo_ratings, df'[i'].P2))
        /\ (pc = "elo" /\ pc' = "elo_done") =>
            /\ P1_elo' = p1_elo_before
            /\ P2_elo' = p2_elo_before
            /\ Len(elo_diff') = Len(df')
            /\ \A k \in 1 .. Len(df') : elo_diff'[k] = P1_elo'[k] - P2_elo'[k]
      ]_vars

\* A returned table with a row whose pre-match ratings carry earlier updates.
C1_Witness ==
    /\ pc = "elo_done"
    /\ \E k \in 1 .. Len(df) :
          /\ P1_elo[k] # 1500 * Scale
          /\ P2_elo[k] # 1500 * Scale
          /\ elo_diff[k] # 0

\* C2: over an augmented ledger the two rows of one match emit the same
\* pre-match ratings with the roles exchanged, so that neither row's rating
\* includes a change caused by that same match.
C2_MirrorRowsSamePreMatch ==
    (pc = "elo_done" /\ augmented /\ NoDuplicateRows) =>
        \A j, k \in 1 .. Len(df) :
            IsMirrorOf(df[k], df[j]) =>
                /\ P1_elo[j] = P2_elo[k]
                /\ P2_elo[j] = P1_elo[k]

\* C4: the first row, in the ELO pass's processing order, in which a player
\* appears (as P1 or as P2) emits exactly 1500 for that player.
C4_ColdStart1500 ==
    \A k \in 1 .. Len(p1_elo_before) :
        /\ (\A j \in 1 .. k - 1 : df[k].P1 \notin {df[j].P1, df[j].P2})
              => p1_elo_before[k] = 1500 * Scale
        /\ (\A j \in 1 .. k - 1 : df[k].P2 \notin {df[j].P1, df[j].P2})
              => p2_elo_before[k] = 1500 * Scale

\* A player first seen late in the pass, facing a player already rated.
C4_Witness ==
    /\ pc = "elo_done"
    /\ \E k \in 2 .. Len(df) :
          /\ \A j \in 1 .. k - 1 : df[k].P2 \notin {df[j].P1, df[j].P2}
          /\ p2_elo_before[k] = 1500 * Scale
          /\ p1_elo_before[k] # 1500 * Scale

\* C5: a second call of create_elo_ratings on the identical ordered sequence
\* of matches returns the same rating columns as the first: the rating state
\* is created fresh inside each call.
C5_SecondCallIdentical ==
    (pc = "elo_done" /\ second) => << P1_elo, P2_elo >> = elo_prev

\* The second call has returned, and ratings did move during the pass.
C5_Witness ==
    /\ pc = "elo_done"
    /\ second
    /\ \E k \in 1 .. Len(df) : P1_elo[k] # 1500 * Scale

\* C6: one ELO update with K = 32 stores for the winner (P1 if result = +1,
\* otherwise P2) a rating strictly greater than the winner's pre-match
\* rating, and for the loser a rating strictly smaller than before.
C6_WinnerUpLoserDown ==
    [][ IsEloStep =>
            LET row == df'[i']
                winner == IF row.result = 1 THEN row.P1 ELSE row.P2
                loser == IF row.result = 1 THEN row.P2 ELSE row.P1
            IN  /\ elo_ratings'[winner] > HeldRating(elo_ratings, winner)
                /\ elo_ratings'[loser] < HeldRating(elo_ratings, loser)
      ]_vars

\* An update was applied to unequal pre-match ratings, won by P2, the
\* lower-rated player.
C6_Witness ==
    /\ pc = "elo"
    /\ i >= 2
    /\ df[i].result = -1
    /\ p1_elo_before[i] > p2_elo_before[i]
    /\ elo_ratings[df[i].P2] > p2_elo_before[i]

\* C7: over an augmented ledger the h2h_p1_win_ratio of the row (A,B) equals
\* 1 minus the h2h_p1_win_ratio of the mirrored row (B,A) of the same match.
C7_H2HRatioSymmetric ==
    (pc = "h2h_done" /\ augmented /\ NoDuplicateRows) =>
        \A j, k \in 1 .. Len(df) :
            IsMirrorOf(df[k], df[j]) =>
                h2h_records[j].h2h_p1_win_ratio =
                    Scale - h2h_records[k].h2h_p1_win_ratio

\* Row k describes the first meeting of its two players: every row of
\* another match between them has a strictly later date.
IsFirstMeeting(k) ==
    \A j \in 1 .. Len(df) :
        ({df[j].P1, df[j].P2} = {df[k].P1, df[k].P2} /\ ~SameMatch(df[j], df[k]))
            => df[j].tourney_date > df[k].tourney_date

\* C8: every row of a first-ever meeting of two players, the mirrored row
\* included, emits h2h_p1_win_ratio = 0.5 with h2h_total_matches = 0.
C8_FirstMeetingNeutral ==
    (pc = "h2h_done" /\ NoDuplicateRows) =>
        \A k \in 1 .. Len(df) :
            IsFirstMeeting(k) =>
                /\ h2h_records[k].h2h_p1_win_ratio = Scale \div 2
                /\ h2h_records[k].h2h_total_matches = 0

\* C3: create_surface_performance_features traverses the rows in ascending
\* tourney_date order, so no later match contributes to a row's win rates.
C3_SurfaceChronological ==
    pc \in {"surface", "surface_done"} =>
        \A j, k \in 1 .. Len(df) :
            j < k => df[j].tourney_date <= df[k].tourney_date

\* Rows of other matches that player p played on the surface of row k.
OtherRowsOn(k, p) ==
    { j \in 1 .. Len(df) :
        /\ p \in {df[j].P1, df[j].P2}
        /\ df[j].surface = df[k].surface
        /\ ~SameMatch(df[j], df[k]) }

\* What C9 asks of the rate emitted for player p in row k.
FirstOnSurfaceNeutral(k, p, rate) ==
    /\ (\A j \in OtherRowsOn(k, p) : df[j].tourney_date > df[k].tourney_date)
          => rate = Scale \div 2
    /\ rate # Scale \div 2
          => \E j \in OtherRowsOn(k, p) : df[j].tourney_date <= df[k].tourney_date

\* C9: the row of a player's chronologically first match on a surface emits
\* 0.5 for that player, as P1 or as P2; another rate is emitted only when
\* the player has an earlier match on that surface.
C9_FirstOnSurfaceNeutral ==
    (pc = "surface_done" /\ NoDuplicateRows) =>
        \A k \in 1 .. Len(df) :
            /\ FirstOnSurfaceNeutral(k, df[k].P1, p1_surface_wr[k])
            /\ FirstOnSurfaceNeutral(k, df[k].P2, p2_surface_wr[k])

\* C10: augment_with_reversed_matches on N rows that all have result = +1
\* returns 2N rows: every original row is kept, as often as it occurred, and
\* has exactly one mirrored row with P1 and P2 exchanged and result = -1.
C10_AugmentDoubles ==
    [][ (pc = "raw" /\ pc' = "augmented") =>
            /\ Len(df') = 2 * Len(df)
            /\ \A k \in 1 .. Len(df) :
                  LET r == df[k]
                      m == [r EXCEPT !.P1 = r.P2, !.P2 = r.P1, !.result = -1]
                  IN  /\ r.result = 1
                      /\ Occurrences(df', r) = Occurrences(df, r)
                      /\ Occurrences(df', m) = Occurrences(df, r)
            /\ \A k \in 1 .. Len(df') :
                  \/ Occurrences(df, df'[k]) > 0
                  \/ \E j \in 1 .. Len(df) : IsMirrorOf(df'[k], df[j])
      ]_vars

\* An augmented table of two matches on different dates.
C10_Witness ==
    /\ pc = "augmented"
    /\ Len(df) = 4
    /\ df[1].tourney_date < df[4].tourney_date
    /\ \E j, k \in 1 .. 4 : j < k /\ df[j].result = -1 /\ df[k].result = 1

\* C13: the table augment_with_reversed_matches returns is in ascending
\* tourney_date order, originals and mirrors interleaved by date.
IsSortedByDate(t) ==
    \A a, b \in 1 .. Len(t) : a < b => t[a].tourney_date <= t[b].tourney_date

C13_AugmentedSortedByDate ==
    (pc = "augmented") => IsSortedByDate(df)

\* A mirror of an earlier date stands before an original of a later date,
\* and that original before its own mirror.
C13_Witness ==
    /\ pc = "augmented"
    /\ \E a, b, c \in 1 .. Len(df) :
          /\ a < b /\ b < c
          /\ df[a].result = -1 /\ df[b].result = 1 /\ df[c].result = -1
          /\ df[a].tourney_date < df[b].tourney_date

\* C11: in a mirrored row every P1/P2 column pair has its two values
\* exchanged, result is the negation of the original's, and every column
\* without a P1/P2 prefix keeps the original's value.
PrefixPairs == { << "P1", "P2" >>, << "P1_rank", "P2_rank" >> }

Prefixed == { pr[1] : pr \in PrefixPairs } \cup { pr[2] : pr \in PrefixPairs }

MirrorsByPairs(m, r) ==
    /\ DOMAIN m = DOMAIN r
    /\ m["result"] = -r["result"]
    /\ \A pr \in PrefixPairs :
          (pr[1] \in DOMAIN r /\ pr[2] \in DOMAIN r)
              => (m[pr[1]] = r[pr[2]] /\ m[pr[2]] = r[pr[1]])
    /\ \A c \in (DOMAIN r) \ (Prefixed \cup {"result"}) : m[c] = r[c]

C11_MirrorSwapsPairs ==
    [][(pc = "raw" /\ pc' = "augmented") =>
          \E f \in [1 .. Len(df) -> 1 .. Len(df')] :
              /\ \A a, b \in 1 .. Len(df) : a # b => f[a] # f[b]
              /\ \A k \in 1 .. Len(df) :
                    /\ df'[f[k]]["result"] = -1
                    /\ MirrorsByPairs(df'[f[k]], df[k])]_vars

\* An augmented ledger with both rank columns, holding an original whose two
\* ranks differ and a mirror of it.
C11_Witness ==
    /\ pc = "augmented"
    /\ "P2_rank" \in Columns(df)
    /\ \E a, b \in 1 .. Len(df) :
          /\ df[a]["result"] = 1
          /\ df[a]["P1_rank"] # df[a]["P2_rank"]
          /\ df[b]["result"] = -1
          /\ MirrorsByPairs(df[b], df[a])

\* C12: when the number of P1-prefixed columns differs from the number of
\* P2-prefixed columns, no augmented table is returned.
PrefixCountsDiffer(t) ==
    Cardinality({ pr \in PrefixPairs : pr[1] \in Columns(t) })
        # Cardinality({ pr \in PrefixPairs : pr[2] \in Columns(t) })

C12_MismatchAborts ==
    (pc = "augmented") => ~PrefixCountsDiffer(df)

\* C14: with window W, the <col>_moy of the k-th row of a player as P1, in
\* ascending date order, is the mean of <col> over that player's last
\* min(k, W) rows, the current one included; the first row's average is its
\* raw value.
RECURSIVE PlayerValues(_, _, _)
PlayerValues(t, p, col) ==
    IF t = << >> THEN << >>
    ELSE IF Head(t)["P1"] = p
         THEN << Head(t)[col] >> \o PlayerValues(Tail(t), p, col)
         ELSE PlayerValues(Tail(t), p, col)

RECURSIVE SumSeq(_)
SumSeq(q) == IF q = << >> THEN 0 ELSE Head(q) + SumSeq(Tail(q))

Min(a, b) == IF a <= b THEN a ELSE b

\* Row n of the returned table is its player's k-th row.
RankInPlayer(t, n) == Cardinality({ j \in 1 .. n : t[j]["P1"] = t[n]["P1"] })

\* Without its derived columns, the returned table is the input reordered.
SameRowsAs(t, u) ==
    /\ Len(t) = Len(u)
    /\ \E f \in Permutations(1 .. Len(u)) :
          \A n \in 1 .. Len(u) :
              \A c \in DOMAIN u[n] : c \in DOMAIN t[f[n]] /\ t[f[n]][c] = u[n][c]

MeanOfLast(t, n, col, W) ==
    LET k == RankInPlayer(t, n)
        vals == PlayerValues(t, t[n]["P1"], col)
        last == SubSeq(vals, k - Min(k, W) + 1, k)
    IN  (\A x \in 1 .. Len(last) : last[x] # NaN)
            => t[n][MoyName(col)] * Len(last) \in
                  { SumSeq(last) * Scale - e : e \in 0 .. Len(last) - 1 }

C14_RollingMeanOfLastRows ==
    (pc = "rolling_done" /\ "P1_rank" \in stat_columns) =>
        /\ SameRowsAs(df, input)
        /\ \A a, b \in 1 .. Len(df) :
              (a < b /\ df[a]["P1"] = df[b]["P1"])
                  => df[a]["tourney_date"] <= df[b]["tourney_date"]
        /\ \A n \in 1 .. Len(df) :
              /\ MeanOfLast(df, n, "P1_rank", rolling_window)
              /\ (RankInPlayer(df, n) = 1 /\ df[n]["P1_rank"] # NaN)
                    => df[n]["P1_rank_moy"] = df[n]["P1_rank"] * Scale

\* A player's third row with a window of two: the first row is out of the
\* window and would change the mean.
C14_Witness ==
    /\ pc = "rolling_done"
    /\ "P1_rank" \in stat_columns
    /\ rolling_window = 2
    /\ \E n \in 1 .. Len(df) :
          /\ RankInPlayer(df, n) = 3
          /\ \A j \in 1 .. n : df[j]["P1_rank"] # NaN
          /\ df[n - 2]["P1_rank"] # df[n]["P1_rank"]
          /\ df[n]["P1_rank_moy"] * 2
                = (df[n - 1]["P1_rank"] + df[n]["P1_rank"]) * Scale

\* C20: a requested statistic column that is absent from the input is
\* skipped without failure, and the requested columns that are present still
\* get their rolling averages.
C20_AbsentColumnSkipped ==
    (pc # "raw") =>
        /\ raised = << >>
        /\ pc = "rolling_done"
        /\ \A col \in stat_columns :
              (col \in Columns(input)) <=> (MoyName(col) \in Columns(df))

\* P1_ace was requested and is absent, P1_rank was requested and averaged.
C20_Witness ==
    /\ pc = "rolling_done"
    /\ stat_columns = {"P1_rank", "P1_ace"}
    /\ "P1_ace" \notin Columns(input)
    /\ "P1_ace_moy" \notin Columns(df)
    /\ \E n \in 1 .. Len(df) : df[n]["P1_rank_moy"] = df[n]["P1_rank"] * Scale

\* C17: predict_proba raises the not-found ValueError, naming the player,
\* whenever player1 or player2 never appears as P1 in the feature table, and
\* then returns no probability.
AppearsAsP1(t, player) == \E k \in 1 .. Len(t) : t[k]["P1"] = player

C17_NotFoundRaisesValueError ==
    (pc \in {"predicted", "failed"}
        /\ (~AppearsAsP1(df, input[1]) \/ ~AppearsAsP1(df, input[2])))
    => /\ prediction = << >>
       /\ Len(raised) = 2
       /\ raised[1] = "ValueError"
       /\ raised[2] \in { input[1], input[2] }
       /\ ~AppearsAsP1(df, raised[2])

\* player1 has rows with the P1_elo column, player2 has none.
C17_Witness ==
    /\ pc = "failed"
    /\ "P1_elo" \in Columns(df)
    /\ AppearsAsP1(df, input[1])
    /\ ~AppearsAsP1(df, input[2])
    /\ raised = << "ValueError", input[2] >>

\* C18: when both players appear as P1, predict_proba takes for each the
\* P1_elo of a row of largest tourney_date in which the player is P1 and
\* returns the expected score the rating pass computes from these two.
IsLatestEloOf(t, player, elo) ==
    \E k \in 1 .. Len(t) :
        /\ t[k]["P1"] = player
        /\ t[k]["P1_elo"] = elo
        /\ \A j \in 1 .. Len(t) :
              t[j]["P1"] = player => t[j]["tourney_date"] <= t[k]["tourney_date"]

C18_LatestEloExpectedScore ==
    (pc \in {"predicted", "failed"}
        /\ "P1_elo" \in Columns(df)
        /\ AppearsAsP1(df, input[1]) /\ AppearsAsP1(df, input[2]))
    => /\ raised = << >>
       /\ \E elo1, elo2 \in EloValues :
             /\ IsLatestEloOf(df, input[1], elo1)
             /\ IsLatestEloOf(df, input[2], elo2)
             /\ prediction = << Expected(elo1, elo2) >>

\* player1's latest rating differs from an older one of the same player and
\* from player2's latest.
C18_Witness ==
    /\ pc = "predicted"
    /\ "P1_elo" \in Columns(df)
    /\ input[1] # input[2]
    /\ \E a, b, c \in 1 .. Len(df) :
          /\ df[a]["P1"] = input[1] /\ df[b]["P1"] = input[1]
          /\ df[a]["tourney_date"] < df[b]["tourney_date"]
          /\ df[a]["P1_elo"] # df[b]["P1_elo"]
          /\ df[c]["P1"] = input[2]
          /\ df[c]["P1_elo"] # df[b]["P1_elo"]
          /\ prediction = << Expected(df[b]["P1_elo"], df[c]["P1_elo"]) >>
          /\ prediction # << Expected(df[a]["P1_elo"], df[c]["P1_elo"]) >>

InputColumns == {"P1", "P2", "result", "tourney_date", "surface"}

Strip(o) == [c \in InputColumns |-> o[c]]

StripTable(t) == [k \in 1 .. Len(t) |-> Strip(t[k])]

\* C15: for the input "A beats B on day 1 on Hard, A beats C on day 2 on
\* Hard" the feature table has pre-match ELO 1500/1500 on the first row, and
\* on the second row 1516 for A, 1500 for C and surface win rate 1.0 for A.
IsTwoRowScenario(t) ==
    /\ Len(t) = 2
    /\ \E A, B, C \in Players :
          /\ A # B /\ A # C /\ B # C
          /\ { t[1], t[2] } =
                { [P1 |-> A, P2 |-> B, result |-> 1, tourney_date |-> 1,
                   surface |-> "Hard"],
                  [P1 |-> A, P2 |-> C, result |-> 1, tourney_date |-> 2,
                   surface |-> "Hard"] }

C15_TwoRowScenario ==
    (pc = "features_done" /\ IsTwoRowScenario(StripTable(input))) =>
        /\ Len(df) = 2
        /\ df[1]["tourney_date"] = 1 /\ df[2]["tourney_date"] = 2
        /\ df[1]["P1_elo"] = 1500 * Scale /\ df[1]["P2_elo"] = 1500 * Scale
        /\ df[2]["P1_elo"] = 1516 * Scale /\ df[2]["P2_elo"] = 1500 * Scale
        /\ df[2]["P1_surface_win_rate"] = Scale

\* The scenario has been run, with the later match first in the input.
C15_Witness ==
    /\ pc = "features_done"
    /\ IsTwoRowScenario(StripTable(input))
    /\ input[1]["tourney_date"] = 2
    /\ df[2]["P1_elo"] > df[1]["P1_elo"]

\* C16: engineer_features returns the rows it was given, each once and
\* unchanged, in ascending tourney_date order, and every derived value is
\* on the row it was computed for.
IsSortedByP1Date(t) ==
    \A a, b \in 1 .. Len(t) :
        a < b => \/ t[a]["P1"] < t[b]["P1"]
                 \/ /\ t[a]["P1"] = t[b]["P1"]
                    /\ t[a]["tourney_date"] <= t[b]["tourney_date"]

\* The orders of the rows of t that satisfy Sorted.
Orders(t, Sorted(_)) ==
    { s \in { [k \in 1 .. Len(t) |-> t[f[k]]] : f \in Permutations(1 .. Len(t)) } :
        Sorted(s) }

PositionOf(s, r) == CHOOSE k \in 1 .. Len(s) : s[k] = r

Winner(r) == IF r["result"] = 1 THEN r["P1"] ELSE r["P2"]

\* The ratings on row o are those held before o in the chronological order s.
EloOnRow(s, o) ==
    LET ratings == EloRatingsBefore(s, PositionOf(s, Strip(o)))
    IN  /\ o["P1_elo"] = HeldRating(ratings, o["P1"])
        /\ o["P2_elo"] = HeldRating(ratings, o["P2"])
        /\ o["elo_diff"] = o["P1_elo"] - o["P2_elo"]

\* The head-to-head counts on row o are counted over the rows before o in s.
H2HOnRow(s, o) ==
    LET earlier == { j \in 1 .. PositionOf(s, Strip(o)) - 1 :
                       { s[j]["P1"], s[j]["P2"] } = { o["P1"], o["P2"] } }
        Wins(p) == Cardinality({ j \in earlier : Winner(s[j]) = p })
    IN  /\ o["h2h_p1_wins"] = Wins(o["P1"])
        /\ o["h2h_p2_wins"] = Wins(o["P2"])
        /\ o["h2h_total_matches"] = Cardinality(earlier)
        /\ o["h2h_p1_win_ratio"] =
              IF earlier = {} THEN Scale \div 2
              ELSE (Wins(o["P1"]) * Scale) \div Cardinality(earlier)

\* The surface win rates on row o are counted over the rows before o in s.
SurfaceOnRow(s, o) ==
    LET earlier == { j \in 1 .. PositionOf(s, Strip(o)) - 1 :
                       s[j]["surface"] = o["surface"] }
        Played(p) == Cardinality({ j \in earlier : p \in { s[j]["P1"], s[j]["P2"] } })
        Won(p) == Cardinality({ j \in earlier : Winner(s[j]) = p })
        Rate(p) == IF Played(p) = 0 THEN Scale \div 2
                   ELSE (Won(p) * Scale) \div Played(p)
    IN  /\ o["P1_surface_win_rate"] = Rate(o["P1"])
        /\ o["P2_surface_win_rate"] = Rate(o["P2"])
        /\ o["surface_wr_diff"] = Rate(o["P1"]) - Rate(o["P2"])

C16_SameRowsSortedAttached ==
    (pc = "features_done") =>
        LET given == StripTable(input)
            rows == { df[n] : n \in 1 .. Len(df) }
        IN  /\ Len(df) = Len(input)
            /\ \A r \in { given[k] : k \in 1 .. Len(given) } :
                  Occurrences(StripTable(df), r) = Occurrences(given, r)
            /\ IsSortedByDate(df)
            /\ (\A k \in 1 .. Len(given) : Occurrences(given, given[k]) = 1) =>
                  /\ \E s \in Orders(given, IsSortedByDate) :
                        \A o \in rows : EloOnRow(s, o)
                  /\ \E s \in Orders(given, IsSortedByDate) :
                        \A o \in rows : H2HOnRow(s, o)
                  /\ \E s \in Orders(given, IsSortedByP1Date) :
                        \A o \in rows : SurfaceOnRow(s, o)

\* The input was neither in date order nor in (P1, date) order, the same two
\* players met twice, and the later meeting carries the earlier one's outcome.
C16_Witness ==
    /\ pc = "features_done"
    /\ Len(input) = 2
    /\ input[1]["tourney_date"] > input[2]["tourney_date"]
    /\ input[1]["P1"] > input[2]["P1"]
    /\ df[2]["h2h_total_matches"] = 1
    /\ df[2]["P1_elo"] < 1500 * Scale

\* ---------------------------------------------------------------- C25
\* The counter of player p in the state of the unordered pair {a, b}.
H2HCounter(wins, a, b, p) ==
    IF PlayersSorted(a, b) \in DOMAIN wins
    THEN Get(wins[PlayersSorted(a, b)], p, 0)
    ELSE 0

\* The rows processed before row k between the two players of row k, in
\* either role order.
EarlierMeetings(k) ==
    { j \in 1 .. k - 1 : PlayersSorted(df[j].P1, df[j].P2)
                            = PlayersSorted(df[k].P1, df[k].P2) }

IsH2HStep == pc = "h2h" /\ pc' = "h2h" /\ i' = i + 1

\* One row's update adds 1 to the winner's counter of the row's pair and
\* leaves every other counter as it was.
H2HStepAddsOneToWinner ==
    IsH2HStep =>
        LET row == df'[i']
        IN  \A a \in Players, b \in Players, p \in Players :
                H2HCounter(h2h_wins', a, b, p) =
                    H2HCounter(h2h_wins, a, b, p)
                    + (IF /\ PlayersSorted(a, b) = PlayersSorted(row.P1, row.P2)
                          /\ p = Winner(row)
                       THEN 1 ELSE 0)

\* The counts emitted for a row are those of the rows processed before it.
H2HRecordsCountEarlierRows ==
    pc \in {"h2h", "h2h_done"} =>
        \A k \in 1 .. Len(h2h_records) :
            /\ h2h_records[k].h2h_total_matches
                   = h2h_records[k].h2h_p1_wins + h2h_records[k].h2h_p2_wins
            /\ h2h_records[k].h2h_total_matches = Cardinality(EarlierMeetings(k))
            /\ h2h_records[k].h2h_p1_wins
                   = Cardinality({ j \in EarlierMeetings(k) : Winner(df[j]) = df[k].P1 })
            /\ h2h_records[k].h2h_p2_wins
                   = Cardinality({ j \in EarlierMeetings(k) : Winner(df[j]) = df[k].P2 })

\* C25: the counts a row emits are read before its update, the update adds
\* exactly 1 to the winner's counter of the unordered pair and changes
\* nothing else, so h2h_total_matches = h2h_p1_wins + h2h_p2_wins = the
\* number of earlier processed rows between the same two players in either
\* role order.
C25_H2HCountsEarlierRows ==
    [](H2HRecordsCountEarlierRows) /\ [][H2HStepAddsOneToWinner]_vars

\* A row (B, A) that sees the win recorded by an earlier row (A, B) of
\* another date.
C25_Witness ==
    /\ pc = "h2h"
    /\ \E k \in 1 .. Len(h2h_records) : \E j \in 1 .. k - 1 :
          /\ df[j].P1 = df[k].P2 /\ df[j].P2 = df[k].P1
          /\ df[j].tourney_date < df[k].tourney_date
          /\ df[j].result = 1
          /\ h2h_records[k].h2h_p2_wins >= 1
          /\ h2h_records[k].h2h_total_matches >= 1

\* ---------------------------------------------------------------- C26
IsSurfaceStep == pc = "surface" /\ pc' = "surface" /\ i' = i + 1

SurfaceKeys == Players \X Surfaces

\* One row's update adds 1 to the total of (P1, surface) and of
\* (P2, surface), 1 to the wins of the winner on that surface, and leaves
\* every other counter as it was.
SurfaceStepAddsOne ==
    IsSurfaceStep =>
        LET row == df[i']
        IN  \A key \in SurfaceKeys :
                /\ Get(surface_total', key, 0) =
                       Get(surface_total, key, 0)
                       + (IF key = << row.P1, row.surface >> THEN 1 ELSE 0)
                       + (IF key = << row.P2, row.surface >> THEN 1 ELSE 0)
                /\ Get(surface_wins', key, 0) =
                       Get(surface_wins, key, 0)
                       + (IF key = << Winner(row), row.surface >> THEN 1 ELSE 0)

\* No key has more wins than matches, and every emitted rate is in [0, 1].
SurfaceCountersBounded ==
    pc \in {"surface", "surface_done"} =>
        /\ \A key \in SurfaceKeys :
              /\ 0 <= Get(surface_wins, key, 0)
              /\ Get(surface_wins, key, 0) <= Get(surface_total, key, 0)
        /\ DOMAIN surface_wins \subseteq SurfaceKeys
        /\ DOMAIN surface_total \subseteq SurfaceKeys
        /\ \A k \in 1 .. Len(p1_surface_wr) :
              0 <= p1_surface_wr[k] /\ p1_surface_wr[k] <= Scale
        /\ \A k \in 1 .. Len(p2_surface_wr) :
              0 <= p2_surface_wr[k] /\ p2_surface_wr[k] <= Scale

\* C26: each processed row adds exactly 1 to the total of (P1, surface) and
\* of (P2, surface) and exactly 1 to the wins of the winner on that surface,
\* and leaves the counters of every other key unchanged; so 0 <= wins <=
\* total for every key and every emitted surface win rate lies in [0, 1].
C26_SurfaceCountersFrame ==
    [](SurfaceCountersBounded) /\ [][SurfaceStepAddsOne]_vars

\* A player with a win and a loss on one surface, after a rate computed
\* from counters was emitted.
C26_Witness ==
    /\ pc = "surface"
    /\ \E key \in SurfaceKeys :
          /\ 1 <= Get(surface_wins, key, 0)
          /\ Get(surface_wins, key, 0) < Get(surface_total, key, 0)
    /\ \E k \in 1 .. Len(p1_surface_wr) :
          p1_surface_wr[k] # Half /\ p2_surface_wr[k] # Half

\* ---------------------------------------------------------------- C30
\* The sum of the ratings stored for the players of S.
RECURSIVE SumRatings(_, _)
SumRatings(ratings, S) ==
    IF S = {} THEN 0
    ELSE LET p == CHOOSE q \in S : TRUE
         IN  ratings[p] + SumRatings(ratings, S \ {p})

\* One row's update changes only the ratings of its P1 and P2, and what
\* one gains the other loses.
EloStepZeroSum ==
    IsEloStep =>
        LET row == df'[i']
            gain(p) == HeldRating(elo_ratings', p) - HeldRating(elo_ratings, p)
        IN  /\ \A p \in Players \ {row.P1, row.P2} : gain(p) = 0
            /\ gain(row.P1) = -gain(row.P2)
            /\ DOMAIN elo_ratings' = DOMAIN elo_ratings \cup {row.P1, row.P2}

\* The stored ratings sum to 1500 per player seen.
EloSumConserved ==
    pc \in {"elo", "elo_done"} =>
        SumRatings(elo_ratings, DOMAIN elo_ratings)
            = 1500 * Scale * Cardinality(DOMAIN elo_ratings)

AllowedPositions(t) ==
    { k \in 1 .. Len(t) : t[k]["tourney_name"] \in AllowedTournaments }

\* kept is t restricted to the positions in keep, in the order of t.
IsSelection(kept, t, keep) ==
    \E f \in [1 .. Len(kept) -> 1 .. Len(t)] :
        /\ \A a, b \in 1 .. Len(kept) : a < b => f[a] < f[b]
        /\ { f[k] : k \in 1 .. Len(kept) } = keep
        /\ \A k \in 1 .. Len(kept) : kept[k] = t[f[k]]

\* C21: filter_tournaments returns exactly the input rows whose tourney_name
\* is in the allowed list: every kept row has an allowed name, every row
\* with an allowed name is kept, and kept rows are unchanged.
C21_FilterKeepsExactlyAllowed ==
    (pc = "filtered") =>
        /\ \A k \in 1 .. Len(df) : df[k]["tourney_name"] \in AllowedTournaments
        /\ IsSelection(df, input, AllowedPositions(input))

\* A ledger with an allowed and a refused tournament, filtered to one row.
C21_Witness ==
    /\ pc = "filtered"
    /\ Len(input) = 2
    /\ Len(df) = 1
    /\ \E k \in 1 .. 2 : input[k]["tourney_name"] \notin AllowedTournaments

\* ---------------------------------------------------------------- C29
\* The row of the same match from the other player's perspective.
MirrorRow(r) ==
    [c \in DOMAIN r |->
        IF c = "P1" THEN r["P2"]
        ELSE IF c = "P2" THEN r["P1"]
        ELSE IF c = "result" THEN -r["result"]
        ELSE r[c]]

\* C29: after preprocess with augment_data=True, for every row (P1=a, P2=b,
\* result=r) of the returned table the mirrored row (P1=b, P2=a, result=-r)
\* of the same match is also in the returned table, including after
\* filter_players_by_match_count.
C29_MirrorsSurvivePlayerFilter ==
    (pc = "preprocessed" /\ augmented) =>
        \A k \in 1 .. Len(df) : \E j \in 1 .. Len(df) : df[j] = MirrorRow(df[k])

\* ---------------------------------------------------------------- C22
PipelineFailed ==
    /\ Len(steps) >= 1
    /\ steps[1].outcome \in {"CalledProcessError", "TimeoutExpired", "Exception"}

TrainingStarted == Len(steps) >= 2

\* Training starts only after a successful pipeline; a failed pipeline
\* leaves training unstarted; the return value is 0 or 1, and 0 only after
\* two successes.
OrchestrationSafe ==
    /\ Len(steps) <= 2
    /\ Len(steps) >= 1 => steps[1].script = "run_pipeline.py"
    /\ TrainingStarted =>
          /\ steps[2].script = "src.ml.train_model"
          /\ steps[1].outcome = "success"
          /\ steps[1].returncode = << 0 >>
    /\ PipelineFailed => ~TrainingStarted /\ returned \in {<< >>, << 1 >>}
    /\ returned \in {<< >>, << 0 >>, << 1 >>}
    /\ returned = << 0 >> =>
          /\ Len(steps) = 2
          /\ \A k \in 1 .. 2 : steps[k].outcome = "success"
    /\ returned = << 1 >> =>
          LastStep.outcome \in {"CalledProcessError", "TimeoutExpired", "Exception"}

\* C22: main starts the training step only after the data-pipeline step
\* finished successfully; if the pipeline step fails (non-zero exit, timeout
\* or any exception) training is never started and main returns 1; main
\* returns 0 only when both steps succeeded, and its return value is always
\* 0 or 1.
C22_TrainingOnlyAfterPipeline ==
    /\ [](OrchestrationSafe)
    /\ (PipelineFailed ~> returned = << 1 >>)
    /\ <>(returned \in {<< 0 >>, << 1 >>})

\* The pipeline ran out of its 7200 seconds and main returned 1 without
\* starting the training.
C22_Witness ==
    /\ Len(steps) = 1
    /\ steps[1].outcome = "TimeoutExpired"
    /\ elapsed >= PipelineTimeout
    /\ returned = << 1 >>

\* ---------------------------------------------------------------- C23
\* The dated models of a directory, told by their names.
DatedModels(dir) ==
    { name \in dir :
        \E sfx \in Suffixes : name = ModelUnderscore \o sfx \o DotPkl }

\* C23: _find_latest_model returns the dated model file whose name is
\* greatest in sorted order whenever a dated model exists, even if model.pkl
\* also exists; it returns model.pkl only when no dated model exists; and it
\* raises FileNotFoundError when neither exists.
C23_LatestDatedModelFirst ==
    (pc \in {"found", "failed"}) =>
        /\ DatedModels(models_dir) # {} =>
              /\ pc = "found"
              /\ found[1] \in DatedModels(models_dir)
              /\ \A name \in DatedModels(models_dir) \ {found[1]} :
                    LessName(name, found[1])
        /\ (DatedModels(models_dir) = {} /\ ModelPkl \in models_dir) =>
              pc = "found" /\ found = << ModelPkl >>
        /\ (DatedModels(models_dir) = {} /\ ModelPkl \notin models_dir) =>
              pc = "failed" /\ raised = << "FileNotFoundError" >> /\ found = << >>
        /\ found = << ModelPkl >> => DatedModels(models_dir) = {}

\* Two dated models, one name a prefix of the other, beside model.pkl: the
\* longer name is returned.
C23_Witness ==
    /\ pc = "found"
    /\ ModelPkl \in models_dir
    /\ Cardinality(DatedModels(models_dir)) = 2
    /\ found = << ModelUnderscore \o << 49, 50 >> \o DotPkl >>
    /\ ModelUnderscore \o << 49 >> \o DotPkl \in models_dir

\* ---------------------------------------------------------------- C24
\* C24: after a MatchPredictor has been constructed successfully,
\* get_model_info returns the information of the loaded model (model_name
\* and model_path of the file that was loaded), not the 'no model loaded'
\* error entry.
C24_ModelInfoOfLoadedModel ==
    (pc = "informed") =>
        /\ model # None
        /\ model_info = << [model_name |-> model[1], model_path |-> model[1]] >>

\* ---------------------------------------------------------------- C27
\* The row of the table passed to engineer_features with index label n.
InputRow(n) == input[n + 1]

\* C27: inside engineer_features the ELO pass processes rows in ascending
\* tourney_date, and rows of the same tourney_date in the relative order
\* they have in the table passed to engineer_features. Stated for the runs
\* in which the sort by date itself left rows of equal date in the order it
\* received them.
C27_EloTiesInInputOrder ==
    (pc = "features_done" /\ stable) =>
        \A a, b \in 1 .. Len(elo_order) :
            a < b =>
                /\ InputRow(elo_order[a])["tourney_date"]
                      <= InputRow(elo_order[b])["tourney_date"]
                /\ InputRow(elo_order[a])["tourney_date"]
                      = InputRow(elo_order[b])["tourney_date"]
                      => elo_order[a] < elo_order[b]

\* ---------------------------------------------------------------- C28
\* C28: the ELO, head-to-head and surface passes are composable in any
\* relative order: applied to the same table in any permutation they yield,
\* for every row, the same P1_elo/P2_elo, the same h2h_* values and the same
\* surface win rates, namely those each pass yields on the given table.
\* Stated for tables whose rows differ in content, and for the runs in which
\* every sort by date left rows of equal date in the order it received them.
C28_PassesComposeInAnyOrder ==
    (/\ Len(applied) = 3
     /\ stable
     /\ \A k \in 1 .. Len(input) :
           Occurrences(StripTable(input), Strip(input[k])) = 1) =>
        LET given == StripTable(input)
        IN  \A n \in 1 .. Len(df) :
                /\ EloOnRow(StableSortValuesDate(given), df[n])
                /\ H2HOnRow(StableSortValuesDate(given), df[n])
                /\ SurfaceOnRow(SortValuesP1Date(given), df[n])

====
